---- MODULE Spec2Model ----
(***************************************************************************)
(* A model of x_xy/io/from_xml.py: load_sys_from_str, the loader that      *)
(* turns an XML description of a kinematic tree into parent-indexed        *)
(* sequences, and load_sys_from_xml, which reads the description from a    *)
(* file first.  The document is a sequence of element nodes; node n's      *)
(* children are the nodes whose parent field is n, in index order.  A      *)
(* node's attrib and the loader's id-keyed maps are Python dicts: a        *)
(* sequence of [key, val] entries in insertion order.  Attribute names     *)
(* and values are strings as the document writes them.  A string here      *)
(* holds the UTF-8 bytes of the Python string, one byte for each of its    *)
(* characters: an ASCII character is one byte, and Chars gathers the       *)
(* bytes of every other character.                                         *)
(***************************************************************************)
EXTENDS Integers, Sequences, FiniteSets, TLC

VARIABLES xml_path, xml_str, tree, pc, error, options, default_attrs, worldbody,
          global_link_idx, stack, links, link_parents, link_names,
          link_types, geoms, armatures, dampings, sys, result

vars == <<xml_path, xml_str, tree, pc, error, options, default_attrs, worldbody,
          global_link_idx, stack, links, link_parents, link_names,
          link_types, geoms, armatures, dampings, sys, result>>

(***************************************************************************)
(* Strings.                                                                *)
(***************************************************************************)

\* The largest and the least element of a finite set of integers.
SetMax(S) == CHOOSE i \in S : \A j \in S : j <= i

SetMin(S) == CHOOSE i \in S : \A j \in S : i <= j

\* The element of a set of one element.  {e(v) : v \in {x}} computes x once
\* and then e of it, so Only of it is e(x).
Only(S) == CHOOSE r \in S : TRUE

\* The bytes 0x80 to 0xBF: in UTF-8 they continue the character that the
\* nearest byte outside this range before them begins.

ContBytes ==
    {"", "", "", "", "", "", "", "", "", "", "", "", "", "", "", "",
     "", "", "", "", "", "", "", "", "", "", "", "", "", "", "", "",
     " ", "¡", "¢", "£", "¤", "¥", "¦", "§", "¨", "©", "ª", "«", "¬", "­", "®", "¯",
     "°", "±", "²", "³", "´", "µ", "¶", "·", "¸", "¹", "º", "»", "¼", "½", "¾", "¿"}

\* The characters of a string, as iterating a Python str yields them: a
\* character begins at every byte that continues none, and runs up to the
\* next such byte.
Chars(s) ==
    Only({ SubSeq([j \in 1..Len(starts) |->
                      SubSeq(s, starts[j],
                             IF j < Len(starts) THEN starts[j + 1] - 1 ELSE Len(s))],
                  1, Len(starts)) :
           starts \in {SelectSeq([i \in 1..Len(s) |-> i],
                                 LAMBDA i : i = 1 \/ SubSeq(s, i, i) \notin ContBytes)} })

\* s.split(sep) for a separator of one character: the pieces between the
\* separators, empty pieces included.
Split(s, sep) ==
    LET cuts == {i \in 1..Len(s) : SubSeq(s, i, i) = sep}
        from(i) == IF {c \in cuts : c < i} = {} THEN 1 ELSE SetMax({c \in cuts : c < i}) + 1
    IN  [j \in 1..(Cardinality(cuts) + 1) |->
            LET upto == IF j <= Cardinality(cuts)
                        THEN CHOOSE c \in cuts : Cardinality({d \in cuts : d < c}) = j - 1
                        ELSE Len(s) + 1
            IN  SubSeq(s, from(upto), upto - 1)]

(***************************************************************************)
(* float(num) followed by jnp.array: the float32 a literal stands for.     *)
(* A float32 is kept as [c, s, m, e]: class "fin", "inf" or "nan", sign    *)
(* bit s, and for a finite value the magnitude m * 2^e with m odd (m = 0   *)
(* and e = 0 for zero).                                                    *)
(***************************************************************************)

DigitChars == {"0", "1", "2", "3", "4", "5", "6", "7", "8", "9"}

DigitVal(c) ==
    CASE c = "0" -> 0 [] c = "1" -> 1 [] c = "2" -> 2 [] c = "3" -> 3 [] c = "4" -> 4
      [] c = "5" -> 5 [] c = "6" -> 6 [] c = "7" -> 7 [] c = "8" -> 8 [] c = "9" -> 9

\* The characters float() strips from both ends of its argument: blank,
\* tab, line feed, vertical tab, form feed and carriage return.
SpaceChars == {" ", "\t", "\n", "", "\f", "\r"}

\* The characters outside ASCII that str.isspace() holds: U+0085, U+00A0,
\* U+1680, U+2000 to U+200A, U+2028, U+2029, U+202F, U+205F and U+3000.

UnicodeSpaces ==
    {"Â", "Â ", "á", "â", "â", "â",
     "â", "â", "â", "â", "â", "â",
     "â", "â", "â¨", "â©", "â¯", "â",
     "ã"}

\* The decimal digits outside ASCII (Unicode 14, category Nd): each row
\* holds the digits zero to nine of one script, in that order.
DigitRuns ==
    {
     <<"Ù ", "Ù¡", "Ù¢", "Ù£", "Ù¤", "Ù¥", "Ù¦", "Ù§", "Ù¨", "Ù©">>,
     <<"Û°", "Û±", "Û²", "Û³", "Û´", "Ûµ", "Û¶", "Û·", "Û¸", "Û¹">>,
     <<"ß", "ß", "ß", "ß", "ß", "ß", "ß", "ß", "ß", "ß">>,
     <<"à¥¦", "à¥§", "à¥¨", "à¥©", "à¥ª", "à¥«", "à¥¬", "à¥­", "à¥®", "à¥¯">>,
     <<"à§¦", "à§§", "à§¨", "à§©", "à§ª", "à§«", "à§¬", "à§­", "à§®", "à§¯">>,
     <<"à©¦", "à©§", "à©¨", "à©©", "à©ª", "à©«", "à©¬", "à©­", "à©®", "à©¯">>,
     <<"à«¦", "à«§", "à«¨", "à«©", "à«ª", "à««", "à«¬", "à«­", "à«®", "à«¯">>,
     <<"à­¦", "à­§", "à­¨", "à­©", "à­ª", "à­«", "à­¬", "à­­", "à­®", "à­¯">>,
     <<"à¯¦", "à¯§", "à¯¨", "à¯©", "à¯ª", "à¯«", "à¯¬", "à¯­", "à¯®", "à¯¯">>,
     <<"à±¦", "à±§", "à±¨", "à±©", "à±ª", "à±«", "à±¬", "à±­", "à±®", "à±¯">>,
     <<"à³¦", "à³§", "à³¨", "à³©", "à³ª", "à³«", "à³¬", "à³­", "à³®", "à³¯">>,
     <<"àµ¦", "àµ§", "àµ¨", "àµ©", "àµª", "àµ«", "àµ¬", "àµ­", "àµ®", "àµ¯">>,
     <<"à·¦", "à·§", "à·¨", "à·©", "à·ª", "à·«", "à·¬", "à·­", "à·®", "à·¯">>,
     <<"à¹", "à¹", "à¹", "à¹", "à¹", "à¹", "à¹", "à¹", "à¹", "à¹">>,
     <<"à»", "à»", "à»", "à»", "à»", "à»", "à»", "à»", "à»", "à»">>,
     <<"à¼ ", "à¼¡", "à¼¢", "à¼£", "à¼¤", "à¼¥", "à¼¦", "à¼§", "à¼¨", "à¼©">>,
     <<"á", "á", "á", "á", "á", "á", "á", "á", "á", "á">>,
     <<"á", "á", "á", "á", "á", "á", "á", "á", "á", "á">>,
     <<"á ", "á¡", "á¢", "á£", "á¤", "á¥", "á¦", "á§", "á¨", "á©">>,
     <<"á ", "á ", "á ", "á ", "á ", "á ", "á ", "á ", "á ", "á ">>,
     <<"á¥", "á¥", "á¥", "á¥", "á¥", "á¥", "á¥", "á¥", "á¥", "á¥">>,
     <<"á§", "á§", "á§", "á§", "á§", "á§", "á§", "á§", "á§", "á§">>,
     <<"áª", "áª", "áª", "áª", "áª", "áª", "áª", "áª", "áª", "áª">>,
     <<"áª", "áª", "áª", "áª", "áª", "áª", "áª", "áª", "áª", "áª">>,
     <<"á­", "á­", "á­", "á­", "á­", "á­", "á­", "á­", "á­", "á­">>,
     <<"á®°", "á®±", "á®²", "á®³", "á®´", "á®µ", "á®¶", "á®·", "á®¸", "á®¹">>,
     <<"á±", "á±", "á±", "á±", "á±", "á±", "á±", "á±", "á±", "á±">>,
     <<"á±", "á±", "á±", "á±", "á±", "á±", "á±", "á±", "á±", "á±">>,
     <<"ê ", "ê¡", "ê¢", "ê£", "ê¤", "ê¥", "ê¦", "ê§", "ê¨", "ê©">>,
     <<"ê£", "ê£", "ê£", "ê£", "ê£", "ê£", "ê£", "ê£", "ê£", "ê£">>,
     <<"ê¤", "ê¤", "ê¤", "ê¤", "ê¤", "ê¤", "ê¤", "ê¤", "ê¤", "ê¤">>,
     <<"ê§", "ê§", "ê§", "ê§", "ê§", "ê§", "ê§", "ê§", "ê§", "ê§">>,
     <<"ê§°", "ê§±", "ê§²", "ê§³", "ê§´", "ê§µ", "ê§¶", "ê§·", "ê§¸", "ê§¹">>,
     <<"ê©", "ê©", "ê©", "ê©", "ê©", "ê©", "ê©", "ê©", "ê©", "ê©">>,
     <<"ê¯°", "ê¯±", "ê¯²", "ê¯³", "ê¯´", "ê¯µ", "ê¯¶", "ê¯·", "ê¯¸", "ê¯¹">>,
     <<"ï¼", "ï¼", "ï¼", "ï¼", "ï¼", "ï¼", "ï¼", "ï¼", "ï¼", "ï¼">>,
     <<"ð ", "ð¡", "ð¢", "ð£", "ð¤", "ð¥", "ð¦", "ð§", "ð¨", "ð©">>,
     <<"ð´°", "ð´±", "ð´²", "ð´³", "ð´´", "ð´µ", "ð´¶", "ð´·", "ð´¸", "ð´¹">>,
     <<"ð¦", "ð§", "ð¨", "ð©", "ðª", "ð«", "ð¬", "ð­", "ð®", "ð¯">>,
     <<"ð°", "ð±", "ð²", "ð³", "ð´", "ðµ", "ð¶", "ð·", "ð¸", "ð¹">>,
     <<"ð¶", "ð·", "ð¸", "ð¹", "ðº", "ð»", "ð¼", "ð½", "ð¾", "ð¿">>,
     <<"ð", "ð", "ð", "ð", "ð", "ð", "ð", "ð", "ð", "ð">>,
     <<"ð°", "ð±", "ð²", "ð³", "ð´", "ðµ", "ð¶", "ð·", "ð¸", "ð¹">>,
     <<"ð", "ð", "ð", "ð", "ð", "ð", "ð", "ð", "ð", "ð">>,
     <<"ð", "ð", "ð", "ð", "ð", "ð", "ð", "ð", "ð", "ð">>,
     <<"ð", "ð", "ð", "ð", "ð", "ð", "ð", "ð", "ð", "ð">>,
     <<"ð", "ð", "ð", "ð", "ð", "ð", "ð", "ð", "ð", "ð">>,
     <<"ð°", "ð±", "ð²", "ð³", "ð´", "ðµ", "ð¶", "ð·", "ð¸", "ð¹">>,
     <<"ð£ ", "ð£¡", "ð£¢", "ð££", "ð£¤", "ð£¥", "ð£¦", "ð£§", "ð£¨", "ð£©">>,
     <<"ð¥", "ð¥", "ð¥", "ð¥", "ð¥", "ð¥", "ð¥", "ð¥", "ð¥", "ð¥">>,
     <<"ð±", "ð±", "ð±", "ð±", "ð±", "ð±", "ð±", "ð±", "ð±", "ð±">>,
     <<"ðµ", "ðµ", "ðµ", "ðµ", "ðµ", "ðµ", "ðµ", "ðµ", "ðµ", "ðµ">>,
     <<"ð¶ ", "ð¶¡", "ð¶¢", "ð¶£", "ð¶¤", "ð¶¥", "ð¶¦", "ð¶§", "ð¶¨", "ð¶©">>,
     <<"ð© ", "ð©¡", "ð©¢", "ð©£", "ð©¤", "ð©¥", "ð©¦", "ð©§", "ð©¨", "ð©©">>,
     <<"ð«", "ð«", "ð«", "ð«", "ð«", "ð«", "ð«", "ð«", "ð«", "ð«">>,
     <<"ð­", "ð­", "ð­", "ð­", "ð­", "ð­", "ð­", "ð­", "ð­", "ð­">>,
     <<"ð", "ð", "ð", "ð", "ð", "ð", "ð", "ð", "ð", "ð">>,
     <<"ð", "ð", "ð", "ð", "ð", "ð", "ð", "ð", "ð ", "ð¡">>,
     <<"ð¢", "ð£", "ð¤", "ð¥", "ð¦", "ð§", "ð¨", "ð©", "ðª", "ð«">>,
     <<"ð¬", "ð­", "ð®", "ð¯", "ð°", "ð±", "ð²", "ð³", "ð´", "ðµ">>,
     <<"ð¶", "ð·", "ð¸", "ð¹", "ðº", "ð»", "ð¼", "ð½", "ð¾", "ð¿">>,
     <<"ð", "ð", "ð", "ð", "ð", "ð", "ð", "ð", "ð", "ð">>,
     <<"ð°", "ð±", "ð²", "ð³", "ð´", "ðµ", "ð¶", "ð·", "ð¸", "ð¹">>,
     <<"ð¥", "ð¥", "ð¥", "ð¥", "ð¥", "ð¥", "ð¥", "ð¥", "ð¥", "ð¥">>,
     <<"ð¯°", "ð¯±", "ð¯²", "ð¯³", "ð¯´", "ð¯µ", "ð¯¶", "ð¯·", "ð¯¸", "ð¯¹">>
    }

\* The ASCII digit that float() reads a decimal digit outside ASCII as, and
\* "?" for a character that is none.
ToDecimal(c) ==
    LET hits == {d \in 1..10 : \E r \in DigitRuns : r[d] = c}
    IN  IF hits = {} THEN "?"
        ELSE <<"0", "1", "2", "3", "4", "5", "6", "7", "8", "9">>[Only(hits)]

\* What float() makes of the characters of its argument before it parses
\* them: an ASCII character stays, any other white space becomes a blank,
\* any other decimal digit the ASCII digit of its value, and at the first
\* character that is neither a "?" ends the text.
Transform(cs) ==
    LET ascii(c) == IF Len(c) = 1 THEN c
                    ELSE IF c \in UnicodeSpaces THEN " "
                    ELSE ToDecimal(c)
    IN  Only({ LET stops == {i \in 1..Len(out) : Len(cs[i]) > 1 /\ out[i] = "?"}
               IN  IF stops = {} THEN out ELSE SubSeq(out, 1, SetMin(stops)) :
               out \in {SubSeq([i \in 1..Len(cs) |-> ascii(cs[i])], 1, Len(cs))} })

\* The lower-case form of the letters "inf", "infinity" and "nan" use.
Lower(c) ==
    CASE c = "I" -> "i" [] c = "N" -> "n" [] c = "F" -> "f" [] c = "T" -> "t"
      [] c = "Y" -> "y" [] c = "A" -> "a" [] OTHER -> c

Fin(s, m, e) == [c |-> "fin", s |-> s, m |-> m, e |-> e]

Inf(s) == [c |-> "inf", s |-> s, m |-> 0, e |-> 0]

NaN == [c |-> "nan", s |-> 0, m |-> 0, e |-> 0]

\* Natural numbers of any size: base-10000 limbs, least significant first,
\* no zero limb at the top; <<>> is zero.
Limb == 10000

LimbAt(a, i) == IF i >= 1 /\ i <= Len(a) THEN a[i] ELSE 0

BigTrim(a) ==
    LET nz == {i \in 1..Len(a) : a[i] # 0}
    IN  IF nz = {} THEN <<>> ELSE SubSeq(a, 1, SetMax(nz))

\* The number written by the decimal digits d (most significant first).
BigOfDigits(d) ==
    LET n == Len(d)
    IN  BigTrim([j \in 1..((n + 3) \div 4) |->
                    LET hi == n - 4 * (j - 1)
                    IN  LimbAt(d, hi) + 10 * LimbAt(d, hi - 1)
                        + 100 * LimbAt(d, hi - 2) + 1000 * LimbAt(d, hi - 3)])

\* -1, 0 or 1 as a < b, a = b or a > b.
BigCmp(a, b) ==
    LET diff == {i \in 1..Len(a) : a[i] # LimbAt(b, i)}
    IN  IF Len(a) < Len(b) THEN -1
        ELSE IF Len(a) > Len(b) THEN 1
        ELSE IF diff = {} THEN 0
        ELSE IF a[SetMax(diff)] < b[SetMax(diff)] THEN -1 ELSE 1

\* a + b: the carry into limb i comes from the nearest limb below whose
\* sum is not Limb - 1.
BigAdd(a, b) ==
    LET n == (IF Len(a) > Len(b) THEN Len(a) ELSE Len(b)) + 1
        sum(i) == LimbAt(a, i) + LimbAt(b, i)
        carry(i) == LET js == {j \in 1..(i - 1) : sum(j) # Limb - 1}
                    IN  IF js # {} /\ sum(SetMax(js)) >= Limb THEN 1 ELSE 0
    IN  BigTrim([i \in 1..n |-> (sum(i) + carry(i)) % Limb])

\* a - b, for a >= b: the borrow into limb i comes from the nearest limb
\* below where a and b differ.
BigSub(a, b) ==
    LET borrow(i) == LET js == {j \in 1..(i - 1) : a[j] # LimbAt(b, j)}
                     IN  IF js # {} /\ a[SetMax(js)] < LimbAt(b, SetMax(js)) THEN 1 ELSE 0
    IN  BigTrim([i \in 1..Len(a) |-> (a[i] - LimbAt(b, i) - borrow(i) + Limb) % Limb])

\* a * c, for 0 <= c < Limb.
BigTimes(a, c) ==
    BigAdd([i \in 1..Len(a) |-> (a[i] * c) % Limb],
           <<0>> \o [i \in 1..Len(a) |-> (a[i] * c) \div Limb])

RECURSIVE BigShl(_, _)
\* a * 2^n
BigShl(a, n) ==
    IF a = <<>> THEN <<>>
    ELSE IF n <= 13 THEN BigTimes(a, 2 ^ n)
    ELSE BigShl(BigTimes(a, 8192), n - 13)

\* 2^j <= num / den
Pow2Below(j, num, den) ==
    IF j >= 0 THEN BigCmp(BigShl(den, j), num) <= 0
    ELSE BigCmp(den, BigShl(num, 0 - j)) <= 0

\* The number of bits of a, less one, to within one bit: a limb is worth
\* log2(10000) = 13.2877 bits.
BitsAbout(a) ==
    ((Len(a) - 1) * 132877) \div 10000 + SetMax({j \in 0..13 : 2 ^ j <= a[Len(a)]})

\* The k with 2^k <= num / den < 2^(k + 1), for num and den above zero.
Log2Floor(num, den) ==
    LET about == BitsAbout(num) - BitsAbout(den)
    IN  SetMax({j \in (about - 3)..(about + 3) : Pow2Below(j, num, den)})

\* One digit of the long division of a by b in base 16: [q, r] with the
\* digit of weight 16^i added to q and taken off a.
BigDivDigit(qr, b, i) ==
    Only({ Only({ [q |-> 16 * qr.q + c, r |-> BigSub(qr.r, BigTimes(bi, c))] :
                  c \in {SetMax({d \in 0..15 : BigCmp(BigTimes(bi, d), qr.r) <= 0})} }) :
           bi \in {BigShl(b, 4 * i)} })

\* a divided by b, for a < 2^24 * b: [q, r] with a = q * b + r and r < b.
BigDivMod(a, b) ==
    Only({ BigDivDigit(q1, b, 0) : q1 \in {Only({ BigDivDigit(q2, b, 1) :
                                   q2 \in {Only({ BigDivDigit(q3, b, 2) :
                                   q3 \in {Only({ BigDivDigit(q4, b, 3) :
                                   q4 \in {Only({ BigDivDigit(q5, b, 4) :
                                   q5 \in {BigDivDigit([q |-> 0, r |-> a], b, 5)} })} })} })} })} })

\* The finite float32 m * 2^e in the form with m odd.
OddForm(s, m, e) ==
    LET tz == SetMax({j \in 0..24 : m % (2 ^ j) = 0})
    IN  IF m = 0 THEN Fin(s, 0, 0) ELSE Fin(s, m \div (2 ^ tz), e + tz)

\* The float32 with sign s nearest to (q + r / B) * 2^u, where r / B < 1,
\* k is the exponent of the value's leading bit and the double the value
\* was rounded to first has 52 - (k - u) more bits than q: that double is
\* a tie of the rounding to float32 exactly when r / B lies within half a
\* unit of the double's last place of one half.
RoundHalfEven(s, k, u, q, r, B) ==
    Only({ Only({ Only({ LET m == IF tie THEN (IF q % 2 = 0 THEN q ELSE q + 1)
                                  ELSE IF above > 0 THEN q + 1 ELSE q
                         IN  IF k >= 128 \/ (k = 127 /\ m = 16777216) THEN Inf(s)
                             ELSE OddForm(s, m, u) :
                         tie \in {BigCmp(BigShl(dist, 52 - (k - u)), B) <= 0} }) :
                  dist \in {IF above >= 0 THEN BigSub(twoR, B) ELSE BigSub(B, twoR)} }) :
           twoR \in {BigTimes(r, 2)}, above \in {BigCmp(BigTimes(r, 2), B)} })

\* The float32 that the positive rational num / den (between 10^-47 and
\* 10^39) becomes: float() rounds it to a double (53 bits, ties to even)
\* and jnp.array rounds the double to float32 (24 bits, least exponent
\* -149, ties to even).  u is the exponent of the float32's last place.
RoundToFloat32(s, num, den) ==
    Only({ LET u == IF k - 23 >= -149 THEN k - 23 ELSE -149
           IN  Only({ Only({ RoundHalfEven(s, k, u, qr.q, qr.r, B) :
                             qr \in {BigDivMod(A, B)} }) :
                      A \in {IF u < 0 THEN BigShl(num, 0 - u) ELSE num},
                      B \in {IF u < 0 THEN den ELSE BigShl(den, u)} }) :
           k \in {Log2Floor(num, den)} })

\* How many digits stand in a row in s from position i on.
DigitRun(s, i) ==
    LET others == {j \in i..Len(s) : s[j] \notin DigitChars}
    IN  IF others = {} THEN Len(s) - i + 1 ELSE SetMin(others) - i

\* The digit values d without the zeros in front.
SkipZeros(d) ==
    LET nz == {i \in 1..Len(d) : d[i] # 0}
    IN  IF nz = {} THEN <<>> ELSE SubSeq(d, SetMin(nz), Len(d))

RECURSIVE SmallNat(_)
\* The number a short run of digit values writes.
SmallNat(d) ==
    IF d = <<>> THEN 0 ELSE 10 * SmallNat(SubSeq(d, 1, Len(d) - 1)) + d[Len(d)]

\* The characters of a token without the white space float() strips.
Strip(tok) ==
    LET solid == {i \in 1..Len(tok) : tok[i] \notin SpaceChars}
    IN  IF solid = {} THEN <<>>
        ELSE SubSeq(tok, SetMin(solid), SetMax(solid))

\* An underscore is allowed only between two digits.
UnderscoresOk(s) ==
    \A i \in 1..Len(s) :
        s[i] = "_" => /\ i > 1 /\ s[i - 1] \in DigitChars
                      /\ i < Len(s) /\ s[i + 1] \in DigitChars

\* float(tok): [ok, val]; ok is FALSE when float() raises ValueError.
\* (An exponent of more than six digits is taken to dwarf the mantissa.)
ParseFloat(tok) ==
    Only({
        LET bad == [ok |-> FALSE, val |-> NaN]
            s == SelectSeq(stripped, LAMBDA ch : ch # "_")
            signed == s # <<>> /\ s[1] \in {"+", "-"}
            sgn == IF signed /\ s[1] = "-" THEN 1 ELSE 0
            body == IF signed THEN Tail(s) ELSE s
            low == [i \in 1..Len(body) |-> Lower(body[i])]
            ni == DigitRun(body, 1)
            point == ni + 1 <= Len(body) /\ body[ni + 1] = "."
            nf == IF point THEN DigitRun(body, ni + 2) ELSE 0
            q == ni + (IF point THEN 1 ELSE 0) + nf + 1
            hasExp == q <= Len(body)
            esigned == q + 1 <= Len(body) /\ body[q + 1] \in {"+", "-"}
            efrom == IF esigned THEN q + 2 ELSE q + 1
            ne == DigitRun(body, efrom)
            expOk == /\ body[q] \in {"e", "E"}
                     /\ ne >= 1
                     /\ efrom + ne - 1 = Len(body)
            mant == SkipZeros([i \in 1..(ni + nf) |->
                                  DigitVal(body[IF i <= ni THEN i ELSE i + 1])])
            edigits == IF hasExp THEN SkipZeros([i \in 1..ne |-> DigitVal(body[efrom + i - 1])])
                       ELSE <<>>
            eneg == hasExp /\ esigned /\ body[q + 1] = "-"
            huge == Len(edigits) > 6
            ex == IF huge THEN 0 ELSE IF eneg THEN 0 - SmallNat(edigits) ELSE SmallNat(edigits)
            e10 == ex - nf
            order == Len(mant) + e10
        IN  IF ~UnderscoresOk(stripped) THEN bad
            ELSE IF low \in {<<"i", "n", "f">>, <<"i", "n", "f", "i", "n", "i", "t", "y">>}
            THEN [ok |-> TRUE, val |-> Inf(sgn)]
            ELSE IF low = <<"n", "a", "n">> THEN [ok |-> TRUE, val |-> NaN]
            ELSE IF ni + nf = 0 THEN bad
            ELSE IF hasExp /\ ~expOk THEN bad
            ELSE IF mant = <<>> THEN [ok |-> TRUE, val |-> Fin(sgn, 0, 0)]
            ELSE IF huge THEN [ok |-> TRUE, val |-> IF eneg THEN Fin(sgn, 0, 0) ELSE Inf(sgn)]
            ELSE IF order > 39 THEN [ok |-> TRUE, val |-> Inf(sgn)]
            ELSE IF order < -46 THEN [ok |-> TRUE, val |-> Fin(sgn, 0, 0)]
            ELSE [ok |-> TRUE,
                  val |-> Only({ RoundToFloat32(sgn, num, den) :
                                 num \in {BigOfDigits(mant \o [i \in 1..e10 |-> 0])},
                                 den \in {BigOfDigits(<<1>> \o [i \in 1..(0 - e10) |-> 0])} })] :
        stripped \in {Strip(t) : t \in {Transform(cs) : cs \in {Chars(tok)}}} })
(***************************************************************************)
(* Attribute values.                                                       *)
(***************************************************************************)

\* An attribute value as ElementTree gives it: a string.
Str(s) == [k |-> "str", s |-> s, nd |-> 0, data |-> <<>>, fn |-> <<>>]

\* A jnp array of rank nd (0 or 1) with the given float32 entries.
Arr(nd, data) == [k |-> "arr", s |-> "", nd |-> nd, data |-> data, fn |-> <<>>]

\* The float32 values 0.0 and 1.0.
Zero == Fin(0, 0, 0)

One == Fin(0, 1, 0)

\* jnp.squeeze(jnp.array(array)): a one-element list becomes a rank-0 array.
Squeeze(data) == IF Len(data) = 1 THEN Arr(0, data) ELSE Arr(1, data)

\* jnp.atleast_1d: a rank-0 array becomes a one-element vector.
AtLeast1d(v) == IF v.nd = 0 THEN [v EXCEPT !.nd = 1] ELSE v

\* jnp.zeros((n,))
Zeros(n) == Arr(1, [i \in 1..n |-> Zero])

\* jnp.deg2rad and base.maths.quat_euler are kept symbolic: the value
\* records which functions were applied to which array.
Deg2Rad(v) == [v EXCEPT !.fn = Append(@, "deg2rad")]

QuatEuler(v) == [v EXCEPT !.fn = Append(@, "quat_euler")]

\* Spellings that recur in documents.
Recurring ==
    {"0", "1", "2", "0.1", "0.2", "0.5", "1.0", "9.8", "90",
     "m", "a", "b", "c", "free", "hinge", "box"}

\* float() of each recurring spelling, computed once.
FloatTable == {<<tok, ParseFloat(tok)>> : tok \in Recurring}

\* float(num): [ok, val], ok being FALSE when it raises ValueError.
Float(num) ==
    IF num \in Recurring THEN (CHOOSE p \in FloatTable : p[1] = num)[2]
    ELSE ParseFloat(num)

\* One attribute's conversion in _convert_attrs_to_arrays: a string whose
\* pieces between blanks all parse becomes an array, any other value is
\* left as it is.
ConvertValue(v) ==
    IF v.k # "str" THEN v
    ELSE Only({ IF \A i \in 1..Len(nums) : nums[i].ok
                THEN Squeeze([i \in 1..Len(nums) |-> nums[i].val])
                ELSE v :
                nums \in {LET toks == Split(v.s, " ")
                          IN  SubSeq([i \in 1..Len(toks) |-> Float(toks[i])],
                                     1, Len(toks))} })

(***************************************************************************)
(* Python dicts, in insertion order.                                       *)
(***************************************************************************)

\* {}
NoAttrs == <<>>

\* k in d
Has(d, k) == \E i \in 1..Len(d) : d[i].key = k

\* d[k], for a key the dict holds.
Get(d, k) == d[CHOOSE i \in 1..Len(d) : d[i].key = k].val

\* d[k] = v
DictSet(d, k, v) ==
    IF Has(d, k)
    THEN [i \in 1..Len(d) |-> IF d[i].key = k THEN [key |-> k, val |-> v] ELSE d[i]]
    ELSE Append(d, [key |-> k, val |-> v])

\* [i for i in d]
Keys(d) == [i \in 1..Len(d) |-> d[i].key]

\* [d[i] for i in d]
Vals(d) == [i \in 1..Len(d) |-> d[i].val]

\* set(d)
KeySet(d) == {d[i].key : i \in 1..Len(d)}

\* The assertion of line 152: the keys are 0, 1, ..., len(d)-1 in order.
OrderOk(d) == Keys(d) = [i \in 1..Len(d) |-> i - 1]

RECURSIVE Concatenate(_)
\* jnp.concatenate of a list of vectors: their entries, in order.
Concatenate(vs) ==
    IF vs = <<>> THEN <<>> ELSE Head(vs).data \o Concatenate(Tail(vs))

(***************************************************************************)
(* The element tree.                                                       *)
(***************************************************************************)

Nd(tag, parent, attrib) == [tag |-> tag, parent |-> parent, attrib |-> attrib]

RECURSIVE SortedSeq(_)
SortedSeq(S) ==
    IF S = {} THEN <<>>
    ELSE LET m == CHOOSE x \in S : \A y \in S : x <= y
         IN  <<m>> \o SortedSeq(S \ {m})

\* list(node): the children of node n in document order.
Children(t, n) == SortedSeq({i \in 1..Len(t) : t[i].parent = n})

\* node.findall(tag): the direct children of n with that tag.
FindAll(t, n, tag) == SelectSeq(Children(t, n), LAMBDA i : t[i].tag = tag)

RECURSIVE IterSeq(_, _)
RECURSIVE Iter(_, _)
\* node.iter(): n and its descendants, depth first, in document order.
Iter(t, n) == <<n>> \o IterSeq(t, Children(t, n))

IterSeq(t, ns) ==
    IF ns = <<>> THEN <<>> ELSE Iter(t, Head(ns)) \o IterSeq(t, Tail(ns))

Range(s) == {s[i] : i \in 1..Len(s)}

\* The document root (ElementTree.fromstring returns it).
Root == 1

(***************************************************************************)
(* Errors: the exception raised and the source line that raised it.        *)
(***************************************************************************)

NoError == [exc |-> "", line |-> 0]

Raise(exc, line) == [exc |-> exc, line |-> line]

(***************************************************************************)
(* _find_assert_unique                                                     *)
(***************************************************************************)

RECURSIVE FindFirst(_, _, _)
\* A lookup that takes the first match and never asserts uniqueness.
FindFirst(t, n, keys) ==
    LET value == FindAll(t, n, Head(keys))
    IN  IF Len(value) = 0 THEN [ok |-> TRUE, node |-> 0]
        ELSE IF Len(keys) = 1 THEN [ok |-> TRUE, node |-> value[1]]
        ELSE FindFirst(t, value[1], Tail(keys))

RECURSIVE FindAssertUnique(_, _, _)
\* Returns [ok, node]: ok is FALSE when the uniqueness assertion fails,
\* node is 0 for None.
FindAssertUnique(t, n, keys) ==
    LET value == FindAll(t, n, Head(keys))
    IN  IF Len(value) = 0 THEN [ok |-> TRUE, node |-> 0]
        ELSE IF Len(value) # 1 THEN [ok |-> FALSE, node |-> 0]
        ELSE IF Len(keys) = 1 THEN [ok |-> TRUE, node |-> value[1]]
        ELSE FindAssertUnique(t, value[1], Tail(keys))

(***************************************************************************)
(* _assert_all_tags_attrs_valid                                            *)
(***************************************************************************)

\* The keys of valid_attrs.
ValidTags == {"x_xy", "options", "defaults", "worldbody", "body", "geom"}

\* valid_attrs[tag]
ValidAttrs(tag) ==
    CASE tag = "x_xy" -> {"model"}
      [] tag = "options" -> {"gravity", "dt"}
      [] tag = "defaults" -> {"geom", "body"}
      [] tag = "worldbody" -> {}
      [] tag = "body" -> {"name", "pos", "quat", "euler", "joint", "armature", "damping"}
      [] tag = "geom" -> {"type", "mass", "pos", "dim"}

\* attr.split("_")[0] == "vispy"
HasVispyPrefix(attr) == Split(attr, "_")[1] = "vispy"

\* Lines 49-51 for one attribute of one node: TRUE when no assertion fails.
AttrPasses(tag, attr) ==
    IF tag = "geom" /\ HasVispyPrefix(attr) THEN TRUE
    ELSE attr \in ValidAttrs(tag)

\* Lines 47-51 for one node.
NodePasses(nd) ==
    /\ nd.tag \in ValidTags
    /\ \A attr \in KeySet(nd.attrib) : AttrPasses(nd.tag, attr)

\* A check that looks at the attributes of the nodes whose tag it knows
\* and lets every other node pass.
AssertAttrsOnly(t) ==
    IF \E n \in 1..Len(t) : t[n].tag \in ValidTags /\ ~NodePasses(t[n])
    THEN Raise("AssertionError", 51)
    ELSE NoError

\* The whole check: NoError, or the assertion the first offending node
\* (in iter() order) trips.
AssertAllTagsAttrsValid(t) ==
    LET order == Iter(t, Root)
        bad == {i \in 1..Len(order) : ~NodePasses(t[order[i]])}
    IN  IF bad = {} THEN NoError
        ELSE IF t[order[SetMin(bad)]].tag \notin ValidTags
        THEN Raise("AssertionError", 47)
        ELSE Raise("AssertionError", 51)

(***************************************************************************)
(* _convert_attrs_to_arrays, _mix_in_defaults, _vispy_subdict              *)
(***************************************************************************)

\* Every attribute of every node, converted in place.
ConvertAttrsToArrays(t) ==
    [n \in 1..Len(t) |->
        [t[n] EXCEPT !.attrib =
            [i \in 1..Len(t[n].attrib) |->
                [key |-> t[n].attrib[i].key, val |-> ConvertValue(t[n].attrib[i].val)]]]]

\* default_attrs[tag]: the attrib dict of the defaults child itself (the
\* same object, so it is read as the tree holds it now), or {}.
DefaultAttrs(t, refs, tag) == IF refs[tag] = 0 THEN NoAttrs ELSE t[refs[tag]].attrib

\* A merge in which a default overrides the node's own value.
MixInNodeOverriding(attr, defaults) ==
    [i \in 1..Len(attr) |->
        IF Has(defaults, attr[i].key)
        THEN [key |-> attr[i].key, val |-> Get(defaults, attr[i].key)]
        ELSE attr[i]]
    \o SelectSeq(defaults, LAMBDA d : ~Has(attr, d.key))

\* Lines 60-62 for one node: every default the node lacks is added, in the
\* order of the defaults.
MixInNode(attr, defaults) == attr \o SelectSeq(defaults, LAMBDA d : ~Has(attr, d.key))

\* Lines 55-62: the body and geom nodes of wb.iter() get their defaults.
MixInDefaults(t, wb, refs) ==
    LET reached == Range(Iter(t, wb))
    IN  [n \in 1..Len(t) |->
            IF n \in reached /\ t[n].tag \in {"body", "geom"}
            THEN [t[n] EXCEPT !.attrib = MixInNode(@, DefaultAttrs(t, refs, t[n].tag))]
            ELSE t[n]]

\* delete_prefix: key[len(key.split("_")[0]) + 1:]
DeletePrefix(key) == SubSeq(key, Len(Split(key, "_")[1]) + 2, Len(key))

\* The dict comprehension of line 70: a key stands where its remainder
\* first came up and holds the value of the last attribute with that
\* remainder.
VispySubdict(attr) ==
    LET ks == {i \in 1..Len(attr) : HasVispyPrefix(attr[i].key)}
        same(i) == {j \in ks : DeletePrefix(attr[j].key) = DeletePrefix(attr[i].key)}
        firsts == SortedSeq({i \in ks : i = SetMin(same(i))})
    IN  [n \in 1..Len(firsts) |->
            [key |-> DeletePrefix(attr[firsts[n]].key),
             val |-> attr[SetMax(same(firsts[n]))].val]]

(***************************************************************************)
(* process_body                                                            *)
(***************************************************************************)

\* base.QD_WIDTHS: the velocity-space width of each joint type.
QD_WIDTHS == [free |-> 6, hinge |-> 1]

\* The lookup of line 121 succeeds for a string that is a key of the table
\* (an array is not hashable, any other string is no key).
KnownJoint(v) == v.k = "str" /\ v.s \in DOMAIN QD_WIDTHS

\* A counter that skips an id at every visit.
NextLinkIdxSkipping(g) == g + 2

\* Line 104: the id the next visited body gets.
NextLinkIdx(g) == g + 1

\* A call that hands its sub-bodies the shared counter instead of its own id.
CallerIdxFromCounter(frame) == global_link_idx

\* Lines 144 and 149: the parent a call's loop passes to the calls it makes
\* is the call's own current_link_idx (-1 for the loop of line 148).
CallerIdx(frame) == frame.idx

\* body.attrib.get("pos", jnp.array([0.0, 0, 0]))
PosOf(attr) == IF Has(attr, "pos") THEN Get(attr, "pos") ELSE Arr(1, <<Zero, Zero, Zero>>)

\* jnp.array([1.0, 0, 0, 0])
IdentityQuat == Arr(1, <<One, Zero, Zero, Zero>>)

\* An orientation step in which quat silently wins over euler.
ResolveRotQuatWins(attr) ==
    IF Has(attr, "quat") THEN [err |-> NoError, rot |-> Get(attr, "quat")]
    ELSE IF Has(attr, "euler")
         THEN [err |-> NoError, rot |-> QuatEuler(Deg2Rad(Get(attr, "euler")))]
         ELSE [err |-> NoError, rot |-> IdentityQuat]

\* Lines 112-118: [err, rot].
ResolveRot(attr) ==
    IF Has(attr, "quat")
    THEN IF Has(attr, "euler")
         THEN [err |-> Raise("AssertionError", 114), rot |-> Get(attr, "quat")]
         ELSE [err |-> NoError, rot |-> Get(attr, "quat")]
    ELSE IF Has(attr, "euler")
         THEN IF Get(attr, "euler").k = "str"
              THEN [err |-> Raise("TypeError", 116), rot |-> Get(attr, "euler")]
              ELSE [err |-> NoError, rot |-> QuatEuler(Deg2Rad(Get(attr, "euler")))]
         ELSE [err |-> NoError, rot |-> IdentityQuat]

\* body.attrib.get(name, jnp.zeros((qd_size,))), lines 122-123.
GetOrZeros(attr, name, qd_size) ==
    IF Has(attr, name) THEN Get(attr, name) ELSE Zeros(qd_size)

\* The shapes geom_map knows.
GeomShapes == {"box", "sphere", "cylinder"}

\* The lambdas of lines 128-132 applied to dim: the dimensions handed to
\* the shape's constructor, or the error of unpacking or indexing dim.  A
\* vector gives its entries, a string its characters; a rank-0 array can
\* be neither unpacked nor indexed.  (A box takes three dimensions; an
\* index past the end of a vector is clamped to its last entry.)
ShapeDims(shape, dim) ==
    LET items == IF dim.k = "str" THEN Chars(dim.s) ELSE dim.data
        iterable == dim.k = "str" \/ dim.nd = 1
        at(i) == items[IF dim.k = "arr" /\ i > Len(items) THEN Len(items) ELSE i]
    IN  CASE shape = "box" ->
                IF iterable /\ Len(items) = 3
                THEN [err |-> NoError, dims |-> items]
                ELSE [err |-> Raise("TypeError", 128), dims |-> <<>>]
          [] shape = "sphere" ->
                IF iterable /\ Len(items) >= 1
                THEN [err |-> NoError, dims |-> <<at(1)>>]
                ELSE [err |-> Raise("IndexError", 129), dims |-> <<>>]
          [] shape = "cylinder" ->
                IF iterable /\ Len(items) >= 1 /\ (dim.k = "arr" \/ Len(items) >= 2)
                THEN [err |-> NoError, dims |-> <<at(1), at(2)>>]
                ELSE [err |-> Raise("IndexError", 131), dims |-> <<>>]

NoGeom == [shape |-> "", mass |-> Arr(0, <<>>), pos |-> Arr(0, <<>>), dims |-> <<>>,
           vispy |-> NoAttrs]

\* Lines 136-139 for one geom child: [err, geom].
MakeGeom(g_attr) ==
    IF ~Has(g_attr, "type")
    THEN [err |-> Raise("KeyError", 137), geom |-> NoGeom]
    ELSE IF Get(g_attr, "type").k = "arr"
    THEN [err |-> Raise("TypeError", 137), geom |-> NoGeom]
    ELSE IF Get(g_attr, "type").s \notin GeomShapes
    THEN [err |-> Raise("KeyError", 137), geom |-> NoGeom]
    ELSE IF {"mass", "pos", "dim"} \ KeySet(g_attr) # {}
    THEN [err |-> Raise("KeyError", 138), geom |-> NoGeom]
    ELSE LET shape == Get(g_attr, "type").s
             sd == ShapeDims(shape, Get(g_attr, "dim"))
         IN  [err |-> sd.err,
              geom |-> [shape |-> shape, mass |-> Get(g_attr, "mass"),
                        pos |-> Get(g_attr, "pos"), dims |-> sd.dims,
                        vispy |-> VispySubdict(g_attr)]]

RECURSIVE LinkGeoms(_, _)
\* Lines 134-140 over body.findall("geom"): [err, geoms], stopping at the
\* first geom that raises.
LinkGeoms(t, gs) ==
    IF gs = <<>> THEN [err |-> NoError, geoms |-> <<>>]
    ELSE LET g == MakeGeom(t[Head(gs)].attrib)
         IN  IF g.err # NoError THEN [err |-> g.err, geoms |-> <<>>]
             ELSE LET rest == LinkGeoms(t, Tail(gs))
                  IN  [err |-> rest.err, geoms |-> <<g.geom>> \o rest.geoms]

\* Lines 107-141 for one body: the first exception raised and how far the
\* call got (stage 8: it ran through).
BodyOutcome(t, body) ==
    LET attr == t[body].attrib
        rot == ResolveRot(attr)
        lg == LinkGeoms(t, FindAll(t, body, "geom"))
    IN  IF ~Has(attr, "joint") THEN [err |-> Raise("KeyError", 108), stage |-> 1]
        ELSE IF ~Has(attr, "name") THEN [err |-> Raise("KeyError", 109), stage |-> 2]
        ELSE IF rot.err # NoError THEN [err |-> rot.err, stage |-> 3]
        ELSE IF ~KnownJoint(Get(attr, "joint"))
             THEN [err |-> Raise(IF Get(attr, "joint").k = "arr" THEN "TypeError"
                                 ELSE "KeyError", 121),
                   stage |-> 4]
        ELSE IF Has(attr, "armature") /\ Get(attr, "armature").k = "str"
             THEN [err |-> Raise("TypeError", 124), stage |-> 5]
        ELSE IF Has(attr, "damping") /\ Get(attr, "damping").k = "str"
             THEN [err |-> Raise("TypeError", 125), stage |-> 6]
        ELSE IF lg.err # NoError THEN [err |-> lg.err, stage |-> 7]
        ELSE [err |-> NoError, stage |-> 8]

(***************************************************************************)
(* load_sys_from_xml and load_sys_from_str, one action per statement       *)
(* group.                                                                  *)
(***************************************************************************)

NoSys == [link_parents |-> <<>>, links |-> <<>>, link_types |-> <<>>,
          link_damping |-> <<>>, link_armature |-> <<>>, dt |-> Arr(0, <<>>),
          geoms |-> <<>>, gravity |-> Arr(0, <<>>), link_names |-> <<>>]

\* Nothing has been returned.
NoResult == [fn |-> "", arg |-> NoSys]

\* x_xy.io.parse_system is not part of this file: what it returns is kept
\* symbolic, as the function applied to the System it was handed.
parse_system(s) == [fn |-> "parse_system", arg |-> s]

\* How the call of parse_system can end.
ParseOutcomes == {"returns", "raises"}

walk_vars == <<global_link_idx, stack, links, link_parents, link_names,
               link_types, geoms, armatures, dampings>>

\* A text is given by what ElementTree.fromstring makes of it: the element
\* nodes of a well-formed document, or nothing.
Xml(nodes) == [kind |-> "xml", nodes |-> nodes]

\* A text that is not well-formed XML: an element left open, a character
\* reference XML forbids, an attribute written twice, no element at all.
NotXml == [kind |-> "malformed", nodes |-> <<>>]

\* xml_str before load_sys_from_xml has read it.
NoText == [kind |-> "unbound", nodes |-> <<>>]

\* xml_tree before line 84 has bound it.
NoTree == <<>>

\* xml_path of a run that enters at load_sys_from_str.
NoPath == [kind |-> "none", text |-> NoText]

\* xml_path names a file that holds a text, or one that open() or read()
\* fails on.
File(kind, text) == [kind |-> kind, text |-> text]

rest_vars == <<tree, options, default_attrs, worldbody, walk_vars, sys, result>>

\* Line 177: with open(xml_path, "r") as f
OpenFile ==
    /\ pc = "open"
    /\ IF xml_path.kind = "missing"
          THEN pc' = "failed" /\ error' = Raise("FileNotFoundError", 177)
          ELSE IF xml_path.kind = "directory"
          THEN pc' = "failed" /\ error' = Raise("IsADirectoryError", 177)
          ELSE IF xml_path.kind = "denied"
          THEN pc' = "failed" /\ error' = Raise("PermissionError", 177)
          ELSE pc' = "read" /\ UNCHANGED error
    /\ UNCHANGED <<xml_path, xml_str, rest_vars>>

\* Line 178: xml_str = f.read()
ReadFile ==
    /\ pc = "read"
    /\ IF xml_path.kind = "undecodable"
          THEN /\ pc' = "failed"
               /\ error' = Raise("UnicodeDecodeError", 178)
               /\ UNCHANGED xml_str
          ELSE /\ xml_str' = xml_path.text
               /\ pc' = "fromstring"
               /\ UNCHANGED error
    /\ UNCHANGED <<xml_path, rest_vars>>

\* Line 84: xml_tree = ElementTree.fromstring(xml_str)
FromString ==
    /\ pc = "fromstring"
    /\ IF xml_str.kind # "xml"
          THEN /\ pc' = "failed"
               /\ error' = Raise("ParseError", 84)
               /\ UNCHANGED tree
          ELSE /\ tree' = xml_str.nodes
               /\ pc' = "options"
               /\ UNCHANGED error
    /\ UNCHANGED <<xml_path, xml_str, options, default_attrs, worldbody, walk_vars, sys,
                   result>>

\* Line 85: options = _find_assert_unique(xml_tree, "options").attrib
FindOptions ==
    /\ pc = "options"
    /\ LET r == FindAssertUnique(tree, Root, <<"options">>)
       IN  IF ~r.ok
           THEN /\ pc' = "failed"
                /\ error' = Raise("AssertionError", 16)
                /\ UNCHANGED options
           ELSE IF r.node = 0
           THEN /\ pc' = "failed"
                /\ error' = Raise("AttributeError", 85)
                /\ UNCHANGED options
           ELSE /\ pc' = "defaults"
                /\ options' = r.node
                /\ UNCHANGED error
    /\ UNCHANGED <<xml_path, xml_str, tree, default_attrs, worldbody, walk_vars, sys, result>>

\* Line 86: default_attrs = _build_defaults_attributes(xml_tree)
BuildDefaultsAttributes ==
    /\ pc = "defaults"
    /\ LET g == FindAssertUnique(tree, Root, <<"defaults", "geom">>)
           b == FindAssertUnique(tree, Root, <<"defaults", "body">>)
       IN  IF ~g.ok \/ ~b.ok
           THEN /\ pc' = "failed"
                /\ error' = Raise("AssertionError", 16)
                /\ UNCHANGED default_attrs
           ELSE /\ pc' = "worldbody"
                /\ default_attrs' = [geom |-> g.node, body |-> b.node]
                /\ UNCHANGED error
    /\ UNCHANGED <<xml_path, xml_str, tree, options, worldbody, walk_vars, sys, result>>

\* Line 87: worldbody = _find_assert_unique(xml_tree, "worldbody")
FindWorldbody ==
    /\ pc = "worldbody"
    /\ LET r == FindAssertUnique(tree, Root, <<"worldbody">>)
       IN  IF ~r.ok
           THEN /\ pc' = "failed"
                /\ error' = Raise("AssertionError", 16)
                /\ UNCHANGED worldbody
           ELSE /\ pc' = "schema"
                /\ worldbody' = r.node
                /\ UNCHANGED error
    /\ UNCHANGED <<xml_path, xml_str, tree, options, default_attrs, walk_vars, sys, result>>

\* Line 89: _assert_all_tags_attrs_valid(xml_tree)
AssertValid ==
    /\ pc = "schema"
    /\ LET e == AssertAllTagsAttrsValid(tree)
       IN  IF e # NoError
           THEN pc' = "failed" /\ error' = e
           ELSE pc' = "convert" /\ UNCHANGED error
    /\ UNCHANGED <<xml_path, xml_str, tree, options, default_attrs, worldbody, walk_vars, sys,
                   result>>

\* Line 90: _convert_attrs_to_arrays(xml_tree)
ConvertAttrs ==
    /\ pc = "convert"
    /\ tree' = ConvertAttrsToArrays(tree)
    /\ pc' = "mixin"
    /\ UNCHANGED <<xml_path, xml_str, error, options, default_attrs, worldbody, walk_vars, sys,
                   result>>

\* Line 91: _mix_in_defaults(worldbody, default_attrs); worldbody may be None.
MixIn ==
    /\ pc = "mixin"
    /\ IF worldbody = 0
       THEN /\ pc' = "failed"
            /\ error' = Raise("AttributeError", 55)
            /\ UNCHANGED tree
       ELSE /\ tree' = MixInDefaults(tree, worldbody, default_attrs)
            /\ pc' = "init"
            /\ UNCHANGED error
    /\ UNCHANGED <<xml_path, xml_str, options, default_attrs, worldbody, walk_vars, sys, result>>

\* Lines 93-100 and the loop header of line 148.
StartWalk ==
    /\ pc = "init"
    /\ links' = <<>>
    /\ link_parents' = <<>>
    /\ link_names' = <<>>
    /\ link_types' = <<>>
    /\ geoms' = <<>>
    /\ armatures' = <<>>
    /\ dampings' = <<>>
    /\ global_link_idx' = -1
    /\ stack' = <<[idx |-> -1, todo |-> FindAll(tree, worldbody, "body")]>>
    /\ pc' = "walk"
    /\ UNCHANGED <<xml_path, xml_str, tree, error, options, default_attrs, worldbody, sys, result>>

\* One call process_body(body, parent), lines 102-141, made by the loop of
\* the innermost running call (line 143) or of line 148; the call's own
\* loop over its sub-bodies becomes the new top of the stack.
ProcessBody ==
    /\ pc = "walk"
    /\ stack # <<>>
    /\ stack[Len(stack)].todo # <<>>
    /\ LET top == stack[Len(stack)]
           body == Head(top.todo)
           parent == CallerIdx(top)
           current_link_idx == NextLinkIdx(global_link_idx)
           attr == tree[body].attrib
           out == BodyOutcome(tree, body)
           qd_size == QD_WIDTHS[Get(attr, "joint").s]
       IN  /\ global_link_idx' = current_link_idx
           /\ link_parents' = DictSet(link_parents, current_link_idx, parent)
           /\ link_types' = IF out.stage > 1
                            THEN DictSet(link_types, current_link_idx, Get(attr, "joint"))
                            ELSE link_types
           /\ link_names' = IF out.stage > 2
                            THEN DictSet(link_names, current_link_idx, Get(attr, "name"))
                            ELSE link_names
           /\ links' = IF out.stage > 3
                       THEN DictSet(links, current_link_idx,
                                    [pos |-> PosOf(attr), rot |-> ResolveRot(attr).rot])
                       ELSE links
           /\ armatures' = IF out.stage > 5
                           THEN DictSet(armatures, current_link_idx,
                                        AtLeast1d(GetOrZeros(attr, "armature", qd_size)))
                           ELSE armatures
           /\ dampings' = IF out.stage > 6
                          THEN DictSet(dampings, current_link_idx,
                                       AtLeast1d(GetOrZeros(attr, "damping", qd_size)))
                          ELSE dampings
           /\ geoms' = IF out.stage > 7
                       THEN DictSet(geoms, current_link_idx,
                                    LinkGeoms(tree, FindAll(tree, body, "geom")).geoms)
                       ELSE geoms
           /\ IF out.err # NoError
              THEN /\ pc' = "failed"
                   /\ error' = out.err
                   /\ UNCHANGED stack
              ELSE /\ stack' = Append([stack EXCEPT ![Len(stack)].todo = Tail(@)],
                                      [idx |-> current_link_idx,
                                       todo |-> FindAll(tree, body, "body")])
                   /\ UNCHANGED <<pc, error>>
    /\ UNCHANGED <<xml_path, xml_str, tree, options, default_attrs, worldbody, sys, result>>

\* Line 146: the innermost call's loop is exhausted and it returns; when
\* the loop of line 148 is exhausted the traversal is over.
Return ==
    /\ pc = "walk"
    /\ stack # <<>>
    /\ stack[Len(stack)].todo = <<>>
    /\ stack' = SubSeq(stack, 1, Len(stack) - 1)
    /\ pc' = IF Len(stack) = 1 THEN "flatten" ELSE "walk"
    /\ UNCHANGED <<xml_path, xml_str, tree, error, options, default_attrs, worldbody, sys, result,
                   global_link_idx, links, link_parents, link_names, link_types,
                   geoms, armatures, dampings>>

\* A flattening that batches an empty list of links without complaint.
FlattenErrorEmptyOk ==
    IF ~OrderOk(links) \/ ~OrderOk(dampings) \/ ~OrderOk(armatures)
       \/ ~OrderOk(link_parents) \/ ~OrderOk(link_types) \/ ~OrderOk(geoms)
       \/ ~OrderOk(link_names)
    THEN Raise("AssertionError", 152)
    ELSE IF ~Has(tree[options].attrib, "dt") THEN Raise("KeyError", 166)
    ELSE IF ~Has(tree[options].attrib, "gravity") THEN Raise("KeyError", 169)
    ELSE NoError

\* Lines 151-171: the first exception of the flattening, or NoError.
FlattenError ==
    IF ~OrderOk(links) THEN Raise("AssertionError", 152)
    ELSE IF links = <<>> THEN Raise("IndexError", 156)
    ELSE IF ~OrderOk(dampings) \/ ~OrderOk(armatures) \/ ~OrderOk(link_parents)
            \/ ~OrderOk(link_types)
         THEN Raise("AssertionError", 152)
    ELSE IF ~Has(tree[options].attrib, "dt") THEN Raise("KeyError", 166)
    ELSE IF ~OrderOk(geoms) THEN Raise("AssertionError", 152)
    ELSE IF ~Has(tree[options].attrib, "gravity") THEN Raise("KeyError", 169)
    ELSE IF ~OrderOk(link_names) THEN Raise("AssertionError", 152)
    ELSE NoError

\* Lines 155-171: links, dampings and armatures are rebound to the batched
\* links and the concatenated vectors, each as far as the flattening gets,
\* and the System that line 173 hands to parse_system is built from them.
Flatten ==
    /\ pc = "flatten"
    /\ links' = IF OrderOk(links) THEN Vals(links) ELSE links
    /\ dampings' = IF OrderOk(links) /\ links # <<>> /\ OrderOk(dampings)
                   THEN Concatenate(Vals(dampings))
                   ELSE dampings
    /\ armatures' = IF /\ OrderOk(links) /\ links # <<>>
                       /\ OrderOk(dampings) /\ OrderOk(armatures)
                    THEN Concatenate(Vals(armatures))
                    ELSE armatures
    /\ IF FlattenError # NoError
       THEN /\ pc' = "failed"
            /\ error' = FlattenError
            /\ UNCHANGED sys
       ELSE /\ sys' = [link_parents |-> Vals(link_parents),
                       links |-> links',
                       link_types |-> Vals(link_types),
                       link_damping |-> dampings',
                       link_armature |-> armatures',
                       dt |-> Get(tree[options].attrib, "dt"),
                       geoms |-> Vals(geoms),
                       gravity |-> Get(tree[options].attrib, "gravity"),
                       link_names |-> Vals(link_names)]
            /\ pc' = "parse"
            /\ UNCHANGED error
    /\ UNCHANGED <<xml_path, xml_str, tree, options, default_attrs, worldbody, result,
                   global_link_idx, stack, link_parents, link_names, link_types, geoms>>

\* Line 173: return x_xy.io.parse_system(sys).  The function is defined
\* outside this file: the call either returns, and its value is what
\* load_sys_from_str returns, or raises, and the exception leaves
\* load_sys_from_str.
ParseSystem ==
    /\ pc = "parse"
    /\ \E outcome \in ParseOutcomes :
          IF outcome = "returns"
          THEN /\ result' = parse_system(sys)
               /\ pc' = "done"
               /\ UNCHANGED error
          ELSE /\ pc' = "failed"
               /\ error' = Raise("Exception", 173)
               /\ UNCHANGED result
    /\ UNCHANGED <<xml_path, xml_str, tree, options, default_attrs, worldbody, walk_vars, sys>>

Next ==
    \/ OpenFile
    \/ ReadFile
    \/ FromString
    \/ FindOptions
    \/ BuildDefaultsAttributes
    \/ FindWorldbody
    \/ AssertValid
    \/ ConvertAttrs
    \/ MixIn
    \/ StartWalk
    \/ ProcessBody
    \/ Return
    \/ Flatten
    \/ ParseSystem

(***************************************************************************)
(* The documents the loader is run on.                                     *)
(***************************************************************************)

\* How many copies of a node that should be unique a document may hold.
MaxDup == 2

\* How many nodes a document's worldbody subtree may hold.
MaxBodies == 3

Rep(n, nd) == [i \in 1..n |-> nd]

\* One attribute as the document writes it: name="s".
At(name, s) == <<[key |-> name, val |-> Str(s)]>>

OptionsAttrs == At("gravity", "0 0 9.8") \o At("dt", "0.1")

BodyNames == <<"a", "b", "c", "d", "e", "f">>

BodyAttrs(j, joint) == At("name", BodyNames[j]) \o At("joint", joint)

BoxAttrs == At("type", "box") \o At("mass", "1.0") \o At("pos", "0 0 0") \o At("dim", "1 1 2")

RootNode == Nd("x_xy", 0, At("model", "m"))

\* Documents that differ in how many options, defaults, defaults/geom,
\* defaults/body and worldbody nodes they hold, in whether the worldbody
\* holds a body, and in whether and where a <motor/> node sits.
StructDoc(nOpt, nDef, nDG, nDB, nWb, hasBody, motor) ==
    LET head == <<RootNode>> \o Rep(nOpt, Nd("options", Root, OptionsAttrs))
                \o Rep(nDef, Nd("defaults", Root, NoAttrs))
        d == Len(head) - nDef + 1
        mid == head
               \o (IF nDef > 0
                   THEN Rep(nDG, Nd("geom", d, NoAttrs)) \o Rep(nDB, Nd("body", d, NoAttrs))
                   ELSE <<>>)
               \o Rep(nWb, Nd("worldbody", Root, NoAttrs))
        w == Len(mid) - nWb + 1
        full == mid \o (IF nWb > 0 /\ hasBody
                        THEN <<Nd("body", w, BodyAttrs(1, "hinge"))>>
                        ELSE <<>>)
    IN  full \o (CASE motor = "none" -> <<>>
                   [] motor = "top" -> <<Nd("motor", Root, NoAttrs)>>
                   [] motor = "deep" -> <<Nd("motor", Len(full), NoAttrs)>>)

StructDocs ==
    {StructDoc(c[1], c[2], c[3], c[4], c[5], hb, m) :
        c \in [1..5 -> 0..MaxDup], hb \in BOOLEAN, m \in {"none", "top", "deep"}}

\* A well-formed document: options, defaults for geom and body, and a
\* worldbody with one body that owns one box.
BaseDoc ==
    << RootNode,
       Nd("options", 1, OptionsAttrs),
       Nd("defaults", 1, NoAttrs),
       Nd("geom", 3, At("mass", "2")),
       Nd("body", 3, At("pos", "0 0 1")),
       Nd("worldbody", 1, NoAttrs),
       Nd("body", 6, BodyAttrs(1, "free")),
       Nd("geom", 7, BoxAttrs) >>

\* The document with name="s" written on node n (after the attributes the
\* node has, or in place of the one with that name).
WithAttr(doc, n, name, s) == [doc EXCEPT ![n].attrib = DictSet(@, name, Str(s))]

WithTag(doc, n, tag) == [doc EXCEPT ![n].tag = tag]

\* Attribute names: the whitelisted ones of every tag, and names with and
\* without the reserved prefix and the separator.
AttrPool ==
    UNION {ValidAttrs(tg) : tg \in ValidTags}
    \cup {"vispy", "vispy_color", "vispy_", "vispy_edge_color", "vispyx_color",
          "color", "my_vispy", "_vispy"}

\* BaseDoc with one more attribute on one node, or one node's tag changed.
SchemaDocs ==
    {WithAttr(BaseDoc, n, a, "1 0 0") : n \in 1..Len(BaseDoc), a \in AttrPool}
    \cup {WithTag(BaseDoc, n, tg) : n \in 1..Len(BaseDoc), tg \in ValidTags \cup {"motor"}}

\* Every forest of up to MaxBodies body and geom nodes under the worldbody:
\* node j hangs under the worldbody (p[j] = 0) or under an earlier node.
TreeDoc(k, p, tg) ==
    <<RootNode, Nd("options", 1, OptionsAttrs), Nd("worldbody", 1, NoAttrs)>>
    \o [j \in 1..k |->
          Nd(tg[j], 3 + p[j],
             IF tg[j] = "body" THEN BodyAttrs(j, IF j % 2 = 1 THEN "free" ELSE "hinge")
             ELSE BoxAttrs)]

TreeDocs ==
    UNION {{TreeDoc(k, p, tg) :
              p \in {q \in [1..k -> 0..(k - 1)] : \A j \in 1..k : q[j] < j},
              tg \in [1..k -> {"body", "geom"}]} : k \in 0..MaxBodies}

\* An attribute that may be left out: <<>> for absent, <<s>> for name="s".
Opt(name, choice) == IF choice = <<>> THEN NoAttrs ELSE At(name, choice[1])

DampingChoices == {<<>>, <<"0.5">>, <<"0.1 0.5">>, <<"0 0 0 0 0 0.5">>}

\* Two bodies (the second under the first, which owns a box) whose joint,
\* damping and armature vary, under defaults for body and geom that vary.
DampDoc(dd, da, dm, j1, d1, a1, j2, d2, m) ==
    << RootNode,
       Nd("options", 1, OptionsAttrs),
       Nd("defaults", 1, NoAttrs),
       Nd("body", 3, Opt("damping", dd) \o Opt("armature", da)),
       Nd("geom", 3, Opt("mass", dm)),
       Nd("worldbody", 1, NoAttrs),
       Nd("body", 6, BodyAttrs(1, j1) \o Opt("damping", d1) \o Opt("armature", a1)),
       Nd("body", 7, BodyAttrs(2, j2) \o Opt("damping", d2)),
       Nd("geom", 7, IF m = <<>> THEN BoxAttrs ELSE DictSet(BoxAttrs, "mass", Str(m[1]))) >>

DampDocs ==
    {DampDoc(dd, da, dm, j1, d1, a1, j2, d2, m) :
        dd \in {<<>>, <<"0.1">>, <<"0.1 0.2">>}, da \in {<<>>, <<"1">>},
        dm \in {<<>>, <<"2">>},
        j1 \in DOMAIN QD_WIDTHS, d1 \in DampingChoices, a1 \in {<<>>, <<"0.2">>},
        j2 \in DOMAIN QD_WIDTHS, d2 \in DampingChoices, m \in {<<>>, <<"0.5">>}}

\* The orientation attributes a body carries: none, quat, euler, both, or
\* an euler that is no number.
Orient(o) ==
    (IF o \in {"quat", "both"} THEN At("quat", "0 1 0 0") ELSE NoAttrs)
    \o (IF o \in {"euler", "both"} THEN At("euler", "0 0 90") ELSE NoAttrs)
    \o (IF o = "text" THEN At("euler", "up") ELSE NoAttrs)

\* The name and the joint of body j, each written or left out.
BodyIds(j, joint, has) ==
    (IF "name" \in has THEN At("name", BodyNames[j]) ELSE NoAttrs)
    \o (IF "joint" \in has THEN At("joint", joint) ELSE NoAttrs)

\* A body under worldbody and a body nested in it, each with its own
\* orientation attributes and with or without name and joint, under
\* defaults that may declare an orientation for body.
OrientDoc(od, o1, o2, has1, has2) ==
    << RootNode,
       Nd("options", 1, OptionsAttrs),
       Nd("defaults", 1, NoAttrs),
       Nd("body", 3, Orient(od)),
       Nd("worldbody", 1, NoAttrs),
       Nd("body", 5, BodyIds(1, "hinge", has1) \o Orient(o1)),
       Nd("body", 6, BodyIds(2, "hinge", has2) \o Orient(o2)) >>

OrientDocs ==
    {OrientDoc(od, o1, o2, has1, has2) :
        od \in {"none", "quat", "euler"},
        o1 \in {"none", "quat", "euler", "both"},
        o2 \in {"none", "quat", "euler", "both", "text"},
        has1 \in SUBSET {"name", "joint"},
        has2 \in SUBSET {"name", "joint"}}

\* Spellings of one value: what float() accepts (signs, a bare point,
\* exponents, inf and nan in either case, underscores between digits,
\* blanks around the number, values beyond float32's range or precision)
\* and what it refuses.
NumLits ==
    {"10", "3", "-1", "+1", ".5", "1.", "1e3", "1E-2", "inf", "-inf", "nan", "Infinity",
     "iNf", "1_0", "1_000.5", "\t1", "1\n", "0.1", "9.8", "16777217", "3.4028236e38",
     "1e39", "1e-46", "-0", "0e999999999",
     "", ".", "1e", "e1", "1__0", "_1", "1_", "0x10", "1,5", "--1", "+-1", "1 ", " 1",
     "1  2", "1 2", "infin", "nan1", "1.5.2", "1e1.5", "a",
     \* outside ASCII: U+FF11; U+0661 "." U+0662; U+00A0 "1"; "1" U+2003;
     \* U+0085 "1"; U+0663 "e" U+0661; "1_" U+0661; "1" U+2028 " " U+0967;
     \* U+00B2; "in" U+FF46; "1" U+00A0 "2"; U+0661 "x"; U+3000
     "ï¼", "Ù¡.Ù¢", "Â 1", "1â",
     "Â1", "Ù£eÙ¡", "1_Ù¡", "1â¨ à¥§",
     "Â²", "inï½", "1Â 2", "Ù¡x",
     "ã"}

\* BaseDoc with its body's damping written in each spelling, for each
\* joint type.
NumDoc(joint, lit) ==
    WithAttr(WithAttr(BaseDoc, 7, "joint", joint), 7, "damping", lit)

NumDocs == {NumDoc(joint, lit) : joint \in DOMAIN QD_WIDTHS, lit \in NumLits}

\* Names a geom may carry that start with the reserved prefix.
VispyNames == {"vispy", "vispy_", "vispy_color", "vispy__color", "vispy_edge_color"}

\* BaseDoc whose box carries two such attributes, in either order.
VispyDoc(first, second) ==
    WithAttr(WithAttr(BaseDoc, 8, first, "red"), 8, second, "1 0 0")

VispyDocs == {VispyDoc(a, b) : a \in VispyNames, b \in VispyNames}

\* What a geom's dim may hold: vectors, a scalar and text, the last of
\* them the three characters U+00E9 U+0661 U+00B2.
DimChoices ==
    {"1 1 2", "1 2", "1", "1 2 3 4", "abc", "ab", "a", "", "nan", "Ã©Ù¡Â²"}

\* BaseDoc whose geom has each shape with each dim.
GeomDoc(shape, dim) == WithAttr(WithAttr(BaseDoc, 8, "type", shape), 8, "dim", dim)

GeomDocs == {GeomDoc(s, d) : s \in GeomShapes \cup {"cone", "1"}, d \in DimChoices}

Docs ==
    StructDocs \cup SchemaDocs \cup TreeDocs \cup DampDocs \cup OrientDocs
    \cup NumDocs \cup VispyDocs \cup GeomDocs

\* The texts load_sys_from_str may be called on.
Texts == {Xml(d) : d \in Docs} \cup {NotXml}

\* The files load_sys_from_xml may be called on: one for each text but
\* those of DampDocs, and one of each kind that cannot be opened or read.
Files ==
    {File("text", t) : t \in Texts \ {Xml(d) : d \in DampDocs}}
    \cup {File(k, NoText) : k \in {"missing", "directory", "denied", "undecodable"}}

\* A run enters at load_sys_from_str with a text, or at load_sys_from_xml
\* with a path.
Init ==
    /\ \/ xml_path = NoPath /\ xml_str \in Texts /\ pc = "fromstring"
       \/ xml_path \in Files /\ xml_str = NoText /\ pc = "open"
    /\ tree = NoTree
    /\ error = NoError
    /\ options = 0
    /\ default_attrs = [geom |-> 0, body |-> 0]
    /\ worldbody = 0
    /\ global_link_idx = -1
    /\ stack = <<>>
    /\ links = <<>>
    /\ link_parents = <<>>
    /\ link_names = <<>>
    /\ link_types = <<>>
    /\ geoms = <<>>
    /\ armatures = <<>>
    /\ dampings = <<>>
    /\ sys = NoSys
    /\ result = NoResult

Spec == Init /\ [][Next]_vars

(***************************************************************************)
(* Vocabulary of the properties.  These read the document through its      *)
(* parent fields only, not through the loader's own traversal.  A "tree    *)
(* returned" is read off sys, the System that line 173 hands to            *)
(* parse_system, once that call has returned.                              *)
(***************************************************************************)

\* How many children with the given tag node n has in document t.
CountOf(t, n, tag) == Cardinality({i \in 1..Len(t) : t[i].parent = n /\ t[i].tag = tag})

\* The children of n with the given tag, as a set.
Kids(t, n, tag) == {i \in 1..Len(t) : t[i].parent = n /\ t[i].tag = tag}

RECURSIVE IsUnder(_, _, _)
\* Node n is w or lies below w.
IsUnder(t, n, w) == n = w \/ (n # 0 /\ t[n].parent # 0 /\ IsUnder(t, t[n].parent, w))

RECURSIVE BodyChain(_, _, _)
\* Node n is a body reached from worldbody w through bodies only.
BodyChain(t, n, w) ==
    /\ t[n].tag = "body"
    /\ t[n].parent # 0
    /\ (t[n].parent = w \/ BodyChain(t, t[n].parent, w))

\* The bodies of the hierarchy under w.
HierarchyBodies(t, w) == {n \in 1..Len(t) : BodyChain(t, n, w)}

RECURSIVE PreorderOf(_, _, _)
\* The body hierarchy below node n in depth-first pre-order: each child
\* body in document order, each followed by its own hierarchy.
PreorderOf(t, n, from) ==
    LET later == {i \in Kids(t, n, "body") : i >= from}
    IN  IF later = {} THEN <<>>
        ELSE LET c == CHOOSE i \in later : \A j \in later : i <= j
             IN  <<c>> \o PreorderOf(t, c, 1) \o PreorderOf(t, n, c + 1)

\* The position of x in sequence s (0 when absent).
IndexIn(s, x) == IF \E i \in 1..Len(s) : s[i] = x THEN CHOOSE i \in 1..Len(s) : s[i] = x ELSE 0

\* The degrees of freedom of the joint type a body node names.
DOF(t, n) == QD_WIDTHS[Get(t[n].attrib, "joint").s]

RECURSIVE SumDOF(_, _)
SumDOF(t, ns) == IF ns = <<>> THEN 0 ELSE DOF(t, Head(ns)) + SumDOF(t, Tail(ns))

\* The loader has returned a tree.
Loaded == pc = "done"

\* The loader has raised.
Failed == pc = "failed"

\* The nodes of the document the run was given, as the text or the file
\* holds them (none when there is no well-formed document).
Document == (IF xml_path = NoPath THEN xml_str ELSE xml_path.text).nodes

\* Where the loader stands before the schema check has completed.
BeforeSchema == {"open", "read", "fromstring", "options", "defaults", "worldbody", "schema"}

\* The text was read and parsed: line 84 has bound xml_tree.
Parsed ==
    /\ pc \notin {"open", "read", "fromstring"}
    /\ ~(Failed /\ error.line \in {84, 177, 178})

\* The errors of the structural lookups (lines 85-87 and, for a missing
\* worldbody, line 55), of the schema check and of the orientation check.
StructuralViolation ==
    Failed /\ error \in {Raise("AssertionError", 16), Raise("AttributeError", 85),
                         Raise("AttributeError", 55)}

SchemaViolation ==
    Failed /\ error \in {Raise("AssertionError", 47), Raise("AssertionError", 51)}

ConflictingOrientation == Failed /\ error = Raise("AssertionError", 114)

NonContiguousIds == Failed /\ error = Raise("AssertionError", 152)

\* The maps of the traversal are all empty, no id was assigned, no System
\* was built and nothing was returned.
NothingBuilt ==
    /\ global_link_idx = -1
    /\ links = <<>> /\ link_parents = <<>> /\ link_names = <<>> /\ link_types = <<>>
    /\ geoms = <<>> /\ armatures = <<>> /\ dampings = <<>>
    /\ sys = NoSys
    /\ result = NoResult

\* The body visited i-th (link id i - 1) once the worldbody is known.
Visited == PreorderOf(tree, worldbody, 1)

\* Lines 155-158 have rebound links, dampings and armatures: links is the
\* list of the links and no longer the map, dampings and armatures are the
\* concatenated vectors.
Rebound == pc \in {"parse", "done"} \/ (Failed /\ error.line \in {166, 169, 173})

\* The link stored for the body visited i-th.
LinkAt(i) == IF Rebound THEN links[i] ELSE links[i].val

\* The traversal ran through: the loader is flattening or calling
\* parse_system, has returned, or failed in one of the two.
TraversalComplete ==
    \/ pc \in {"flatten", "parse", "done"}
    \/ Failed /\ error.line \in {152, 156, 166, 169, 173}

\* The structural lookups and the schema check have passed.
ChecksPassed ==
    /\ pc \notin BeforeSchema
    /\ ~StructuralViolation
    /\ ~SchemaViolation
    /\ worldbody # 0

(***************************************************************************)
(* C1.  For every document that loads, link ids follow the depth-first     *)
(* pre-order of the body hierarchy under worldbody and are exactly         *)
(* 0..N-1; a body directly under worldbody has parent -1 and every other   *)
(* link's parent is the id of its enclosing body, which is smaller than    *)
(* its own id.                                                             *)
(***************************************************************************)
C1_PreorderIds ==
    Loaded =>
        LET order == PreorderOf(tree, worldbody, 1)
            N == Len(order)
        IN  /\ Range(order) = HierarchyBodies(tree, worldbody)
            /\ Keys(link_parents) = [i \in 1..N |-> i - 1]
            /\ Len(sys.link_parents) = N
            /\ Len(sys.link_names) = N
            /\ \A i \in 1..N :
                  /\ sys.link_names[i] = Get(tree[order[i]].attrib, "name")
                  /\ IF tree[order[i]].parent = worldbody
                     THEN sys.link_parents[i] = -1
                     ELSE /\ sys.link_parents[i] = IndexIn(order, tree[order[i]].parent) - 1
                          /\ sys.link_parents[i] >= 0
                          /\ sys.link_parents[i] < i - 1

\* A loaded forest whose pre-order differs from the order of its nodes in
\* the document's node list: a, its child c, then the second root b.
C1_Witness ==
    /\ Loaded
    /\ sys.link_parents = <<-1, 0, -1>>
    /\ LET order == PreorderOf(tree, worldbody, 1)
       IN  Len(order) = 3 /\ order[2] > order[3]

(***************************************************************************)
(* C9.  The contiguity assertion of line 152 never fails: whenever the     *)
(* traversal has run through, each id-keyed map has exactly the keys       *)
(* 0..N-1 in ascending insertion order, N being the number of visited      *)
(* bodies, and every flattened sequence has length N.                      *)
(***************************************************************************)
C9_Contiguous ==
    /\ ~NonContiguousIds
    /\ TraversalComplete =>
          LET N == Len(Visited)
              ids == [i \in 1..N |-> i - 1]
          IN  /\ Keys(link_parents) = ids
              /\ Keys(link_types) = ids
              /\ Keys(link_names) = ids
              /\ Keys(geoms) = ids
              /\ IF Rebound
                 THEN Len(links) = N
                 ELSE /\ Keys(links) = ids
                      /\ Keys(armatures) = ids
                      /\ Keys(dampings) = ids
    /\ pc \in {"parse", "done"} =>
          LET N == Len(Visited)
          IN  /\ Len(sys.links) = N
              /\ Len(sys.link_parents) = N
              /\ Len(sys.link_types) = N
              /\ Len(sys.link_names) = N
              /\ Len(sys.geoms) = N

\* The flattening is about to run on the maps of three visited bodies,
\* one of them nested.
C9_Witness ==
    /\ pc = "flatten"
    /\ Len(link_parents) = 3
    /\ \E i \in 1..3 : link_parents[i].val = 1

(***************************************************************************)
(* C10.  A document that passes the structural and schema checks but       *)
(* whose worldbody has no direct body child never yields a tree: nothing   *)
(* is visited, the maps stay empty and the flattening fails; so every      *)
(* tree returned has at least one link.                                    *)
(***************************************************************************)
C10_NoEmptyTree ==
    /\ (ChecksPassed /\ Kids(Document, worldbody, "body") = {}) =>
          /\ ~Loaded
          /\ pc # "parse"
          /\ NothingBuilt
          /\ Failed => error = Raise("IndexError", 156)
    /\ pc \in {"parse", "done"} => Len(sys.links) >= 1 /\ Len(sys.link_parents) >= 1

\* The flattening has failed on a worldbody that holds a geom and no body.
C10_Witness ==
    /\ Failed
    /\ error = Raise("IndexError", 156)
    /\ Kids(Document, worldbody, "body") = {}
    /\ Kids(Document, worldbody, "geom") # {}

\* The root holds exactly one options node, at most one defaults node
\* (with at most one geom and at most one body child) and exactly one
\* worldbody node.
WellFormed(t) ==
    /\ CountOf(t, Root, "options") = 1
    /\ CountOf(t, Root, "defaults") <= 1
    /\ \A d \in Kids(t, Root, "defaults") :
          CountOf(t, d, "geom") <= 1 /\ CountOf(t, d, "body") <= 1
    /\ CountOf(t, Root, "worldbody") = 1

\* The lookups of lines 85-87 all succeed (a missing worldbody is only
\* noticed later, at line 55).
LookupsPass(t) ==
    /\ CountOf(t, Root, "options") = 1
    /\ CountOf(t, Root, "defaults") <= 1
    /\ \A d \in Kids(t, Root, "defaults") :
          CountOf(t, d, "geom") <= 1 /\ CountOf(t, d, "body") <= 1
    /\ CountOf(t, Root, "worldbody") <= 1

\* The defaults children for a tag: the nodes with that tag directly under
\* a defaults node of the root.
DefaultNodes(t, tag) ==
    {d \in 1..Len(t) : /\ t[d].tag = tag
                       /\ t[d].parent # 0
                       /\ t[t[d].parent].tag = "defaults"
                       /\ t[t[d].parent].parent = Root}

\* The default set for a tag as document t declares it.
DefaultsOf(t, tag) ==
    IF DefaultNodes(t, tag) = {} THEN NoAttrs
    ELSE t[CHOOSE d \in DefaultNodes(t, tag) : TRUE].attrib

\* The defaults merge has run.
Merged ==
    pc \in {"init", "walk", "flatten", "parse", "done"} \/ (Failed /\ error.line \in 101..173)

(***************************************************************************)
(* C8.  A tree is returned only for a document whose root holds exactly    *)
(* one options node, at most one defaults node (with at most one geom and  *)
(* one body child) and exactly one worldbody node; any other document      *)
(* fails with no result and builds nothing; a missing defaults node or     *)
(* defaults child is no error and gives an empty default set: the nodes    *)
(* of that tag gain no attribute.                                          *)
(***************************************************************************)
C8_Structure ==
    /\ Loaded => WellFormed(Document)
    /\ ~WellFormed(Document) =>
          /\ NothingBuilt
          /\ pc \in BeforeSchema \cup {"convert", "mixin", "failed"}
    /\ WellFormed(Document) => ~StructuralViolation
    /\ \A tag \in {"geom", "body"} :
          (Merged /\ DefaultNodes(Document, tag) = {}) =>
              \A n \in 1..Len(tree) :
                  tree[n].tag = tag => Keys(tree[n].attrib) = Keys(Document[n].attrib)

\* A tree was returned for a document whose defaults node declares body
\* defaults and no geom defaults.
C8_Witness ==
    /\ Loaded
    /\ CountOf(Document, Root, "defaults") = 1
    /\ DefaultNodes(Document, "body") # {}
    /\ DefaultNodes(Document, "geom") = {}

\* Some node of the document has a tag outside the schema.
HasUnknownTag(t) == \E n \in 1..Len(t) : t[n].tag \notin ValidTags

\* No attribute was coerced, no default merged, no link id assigned.
Untouched == tree = (IF Parsed THEN Document ELSE NoTree) /\ NothingBuilt

(***************************************************************************)
(* C5 as stated.  The schema check completes before any coercion, merge    *)
(* or id assignment, and a document with an unrecognized tag anywhere      *)
(* fails with the schema-violation error and never reaches coercion,       *)
(* merge or tree construction.                                             *)
(***************************************************************************)
C5_Original ==
    /\ pc \in BeforeSchema => Untouched
    /\ HasUnknownTag(Document) =>
          /\ Untouched
          /\ pc \in BeforeSchema \cup {"failed"}
          /\ Failed => SchemaViolation

(***************************************************************************)
(* C5 as amended.  The schema check completes before any coercion, merge   *)
(* or id assignment; a document with an unrecognized tag anywhere never    *)
(* reaches coercion, merge or tree construction, and it fails with the     *)
(* schema-violation error when the lookups of lines 85-87 succeed and      *)
(* with the error of the first failing lookup otherwise.                   *)
(***************************************************************************)
C5_SchemaFirst ==
    /\ pc \in BeforeSchema => Untouched
    /\ SchemaViolation => Untouched
    /\ HasUnknownTag(Document) =>
          /\ Untouched
          /\ pc \in BeforeSchema \cup {"failed"}
          /\ Failed =>
                IF LookupsPass(Document) THEN SchemaViolation
                ELSE error \in {Raise("AssertionError", 16), Raise("AttributeError", 85)}

\* The schema check has rejected a structurally sound document for a
\* <motor/> nested below the worldbody.
C5_Witness ==
    /\ SchemaViolation
    /\ error.line = 47
    /\ WellFormed(Document)
    /\ \E n \in 1..Len(Document) :
          Document[n].tag \notin ValidTags /\ Document[n].parent # Root

(***************************************************************************)
(* C7 as stated.  For every visited body: with quat and no euler its       *)
(* orientation is the quat value, with euler and no quat it is the         *)
(* Euler-to-quaternion conversion of the value in radians, with neither    *)
(* it is the identity quaternion; with both, whether written on the body   *)
(* or injected by the defaults, the load fails with the                    *)
(* conflicting-orientation error and returns no tree.                      *)
(***************************************************************************)
C7_Original ==
    global_link_idx >= 0 =>
        /\ \A i \in 1..Len(links) :
              LET attr == tree[Visited[i]].attrib
                  rot == LinkAt(i).rot
              IN  /\ ~(Has(attr, "quat") /\ Has(attr, "euler"))
                  /\ Has(attr, "quat") => rot = Get(attr, "quat")
                  /\ Has(attr, "euler") => rot = QuatEuler(Deg2Rad(Get(attr, "euler")))
                  /\ (~Has(attr, "quat") /\ ~Has(attr, "euler")) =>
                        rot = Arr(1, <<Fin(0, 1, 0), Fin(0, 0, 0), Fin(0, 0, 0), Fin(0, 0, 0)>>)
        /\ \A i \in 1..(global_link_idx + 1) :
              LET attr == tree[Visited[i]].attrib
              IN  (Has(attr, "quat") /\ Has(attr, "euler")) =>
                      /\ ConflictingOrientation
                      /\ sys = NoSys
                      /\ result = NoResult
                      /\ Len(links) = i - 1

(***************************************************************************)
(* C7 as amended.  Lines 108-109 read joint and name before the            *)
(* orientation is resolved.  Every visited body that carries both, and     *)
(* whose euler, where it is the attribute used, is numeric, is given an    *)
(* orientation: the quat value with quat and no euler, the                 *)
(* Euler-to-quaternion conversion of the value in radians with euler and   *)
(* no quat, the identity quaternion with neither.  A visited body with     *)
(* both quat and euler, written or injected by the defaults, makes the     *)
(* load fail and return no tree: with the conflicting-orientation error    *)
(* when it carries joint and name, and with the KeyError of the first of   *)
(* the two that is missing otherwise.  A body with joint and name whose    *)
(* only orientation is an euler that is no number fails with the           *)
(* TypeError of line 116.                                                  *)
(***************************************************************************)
C7_Orientation ==
    global_link_idx >= 0 =>
        /\ \A i \in 1..Len(links) :
              LET attr == tree[Visited[i]].attrib
                  rot == LinkAt(i).rot
              IN  /\ ~(Has(attr, "quat") /\ Has(attr, "euler"))
                  /\ Has(attr, "quat") => rot = Get(attr, "quat")
                  /\ Has(attr, "euler") => rot = QuatEuler(Deg2Rad(Get(attr, "euler")))
                  /\ (~Has(attr, "quat") /\ ~Has(attr, "euler")) =>
                        rot = Arr(1, <<Fin(0, 1, 0), Fin(0, 0, 0), Fin(0, 0, 0), Fin(0, 0, 0)>>)
        /\ \A i \in 1..(global_link_idx + 1) :
              LET attr == tree[Visited[i]].attrib
                  both == Has(attr, "quat") /\ Has(attr, "euler")
                  ids == Has(attr, "joint") /\ Has(attr, "name")
                  text == /\ ~Has(attr, "quat")
                          /\ Has(attr, "euler")
                          /\ Get(attr, "euler").k = "str"
              IN  /\ both =>
                      /\ Failed
                      /\ error = IF ~Has(attr, "joint") THEN Raise("KeyError", 108)
                                 ELSE IF ~Has(attr, "name") THEN Raise("KeyError", 109)
                                 ELSE Raise("AssertionError", 114)
                      /\ sys = NoSys
                      /\ result = NoResult
                      /\ Len(links) = i - 1
                  /\ (ids /\ text) =>
                      /\ Failed
                      /\ error = Raise("TypeError", 116)
                      /\ Len(links) = i - 1
                  /\ (ids /\ ~both /\ ~text) => Len(links) >= i

\* The second visited body wrote euler only, got quat from the defaults,
\* and the load failed on it after the first body was given its link.
C7_Witness ==
    /\ ConflictingOrientation
    /\ Len(links) = 1
    /\ global_link_idx = 1
    /\ ~Has(Document[Visited[2]].attrib, "quat")
    /\ Has(Document[Visited[2]].attrib, "euler")
    /\ Has(Document[Visited[2]].attrib, "joint")
    /\ Has(Document[Visited[2]].attrib, "name")

(***************************************************************************)
(* C3.  The defaults merge only adds attributes: a body or geom node       *)
(* under worldbody keeps every attribute it carried with its value, gains  *)
(* every attribute the defaults for its tag declare and it lacked, with    *)
(* the default value, and gains nothing else; every other node is left     *)
(* unchanged.                                                              *)
(***************************************************************************)
C3_MergeOnlyAdds ==
    [][(pc = "mixin" /\ pc' = "init") =>
          /\ Len(tree') = Len(tree)
          /\ \A n \in 1..Len(tree) :
                IF tree[n].tag \in {"body", "geom"} /\ IsUnder(tree, n, worldbody)
                THEN LET def == DefaultsOf(tree, tree[n].tag)
                         old == tree[n].attrib
                         new == tree'[n].attrib
                     IN  /\ tree'[n].tag = tree[n].tag
                         /\ tree'[n].parent = tree[n].parent
                         /\ KeySet(new) = KeySet(old) \cup KeySet(def)
                         /\ Len(new) = Cardinality(KeySet(new))
                         /\ \A a \in KeySet(old) : Get(new, a) = Get(old, a)
                         /\ \A a \in KeySet(def) \ KeySet(old) : Get(new, a) = Get(def, a)
                ELSE tree'[n] = tree[n]]_vars

\* The merge has just run on a document in which one body wrote a damping
\* that differs from the default and kept it, and another body wrote none
\* and received the default.
C3_Witness ==
    /\ pc = "init"
    /\ Has(DefaultsOf(tree, "body"), "damping")
    /\ \E n \in HierarchyBodies(tree, worldbody) :
          /\ Has(Document[n].attrib, "damping")
          /\ Get(tree[n].attrib, "damping") # Get(DefaultsOf(tree, "body"), "damping")
    /\ \E n \in HierarchyBodies(tree, worldbody) :
          /\ ~Has(Document[n].attrib, "damping")
          /\ Get(tree[n].attrib, "damping") = Get(DefaultsOf(tree, "body"), "damping")

\* The name starts with the reserved prefix followed by the separator.
Prefixed(attr) == Len(attr) >= 6 /\ SubSeq(attr, 1, 6) = "vispy_"

\* The name without the reserved prefix and the separator.
Stripped(attr) == SubSeq(attr, 7, Len(attr))

\* An attribute the schema allows on a node with the given tag: one of the
\* tag's whitelist, or, on a geom, a name that starts with the reserved
\* prefix followed by the separator.
AllowedAttr(tag, attr) == attr \in ValidAttrs(tag) \/ (tag = "geom" /\ Prefixed(attr))

\* A document the schema allows.
AllowedDoc(t) ==
    \A n \in 1..Len(t) :
        /\ t[n].tag \in ValidTags
        /\ \A attr \in KeySet(t[n].attrib) : AllowedAttr(t[n].tag, attr)

\* The schema check has run (the lookups before it did not fail).
SchemaRan ==
    /\ Parsed
    /\ pc \notin BeforeSchema
    /\ ~(Failed /\ error \in {Raise("AssertionError", 16), Raise("AttributeError", 85)})

\* The geom children of node n in document order.
GeomsOf(t, n) == SortedSeq(Kids(t, n, "geom"))

(***************************************************************************)
(* C4.  The schema check accepts a document if and only if every tag is    *)
(* allowed and every attribute is whitelisted for its tag or is a geom     *)
(* attribute that starts with "vispy" followed by "_" (the bare prefix on  *)
(* a geom and a prefixed attribute on another node are rejected); an       *)
(* accepted prefixed attribute appears in the geom's visual metadata       *)
(* under its name without prefix and separator.                            *)
(***************************************************************************)
C4_SchemaIff ==
    /\ SchemaRan => (~SchemaViolation <=> AllowedDoc(Document))
    /\ pc \in {"parse", "done"} =>
          \A i \in 1..Len(sys.geoms) :
              LET gs == GeomsOf(tree, Visited[i])
              IN  /\ Len(sys.geoms[i]) = Len(gs)
                  /\ \A k \in 1..Len(gs) :
                        LET attr == tree[gs[k]].attrib
                            meta == sys.geoms[i][k].vispy
                        IN  /\ KeySet(meta) =
                                  {Stripped(a) : a \in {b \in KeySet(attr) : Prefixed(b)}}
                            /\ \A a \in KeySet(attr) :
                                  Prefixed(a) => Get(meta, Stripped(a)) = Get(attr, a)

(***************************************************************************)
(* C2.  Every link's damping and armature vectors have length              *)
(* DOF(joint_type), whether absent, written on the body or supplied by     *)
(* the defaults, so the concatenated dampings and armatures both have      *)
(* length sum of DOF(joint_types[i]) over the links.                       *)
(***************************************************************************)
C2_WidthsMatchDOF ==
    /\ ~Rebound =>
          /\ \A i \in 1..Len(armatures) :
                Len(armatures[i].val.data) = DOF(tree, Visited[i])
          /\ \A i \in 1..Len(dampings) :
                Len(dampings[i].val.data) = DOF(tree, Visited[i])
    /\ pc \in {"parse", "done"} =>
          /\ Len(sys.link_damping) = SumDOF(tree, Visited)
          /\ Len(sys.link_armature) = SumDOF(tree, Visited)

\* The defaults declare a damping for body that was coerced to a scalar.
ScalarDefaultDamping ==
    LET def == DefaultsOf(tree, "body")
    IN  /\ Has(def, "damping")
        /\ Get(def, "damping").k = "arr"
        /\ Get(def, "damping").nd = 0

(***************************************************************************)
(* C6.  When the defaults declare a scalar damping for body, every body    *)
(* that omits damping gets a damping vector of length DOF(joint_type)      *)
(* with every entry equal to the default, for every joint type, and a      *)
(* body that sets damping keeps its own value.                             *)
(***************************************************************************)
C6_ScalarDefaultFills ==
    ScalarDefaultDamping =>
        LET dflt == Get(DefaultsOf(tree, "body"), "damping").data[1]
            own(b) == IF Has(Document[b].attrib, "damping")
                      THEN AtLeast1d(ConvertValue(Get(Document[b].attrib, "damping")))
                      ELSE Arr(1, [j \in 1..DOF(tree, b) |-> dflt])
        IN  /\ pc = "flatten" => \A i \in 1..Len(dampings) : dampings[i].val = own(Visited[i])
            /\ pc \in {"parse", "done"} =>
                  sys.link_damping =
                      Concatenate([i \in 1..Len(Visited) |-> own(Visited[i])])
====
